---- MODULE Spec2Model ----
(***************************************************************************)
(* State-machine model of the 3D preview component (ModelPreview) of the   *)
(* cityweft front end, together with the props its parent (App) feeds it.  *)
(*                                                                         *)
(* A React component is modelled as follows.  The props and the useState   *)
(* cells are variables; the useRef cells and the three.js objects they     *)
(* point to are variables too.  A handler produces the next props/state;   *)
(* the commit that follows runs, in declaration order, every effect whose  *)
(* dependency list changed, each effect reading the props/state of the     *)
(* render that scheduled it and the refs as they are when it runs.  State  *)
(* set from inside an effect causes a further render, until nothing        *)
(* changes (Settle).  One action = one handler plus the commits it causes. *)
(***************************************************************************)
EXTENDS Integers, FiniteSets, Sequences, TLC

\* ------------------------------------------------------------------ bounds
MaxLoads == 2          \* geometry payloads handed to the component
MaxBuilds == 3         \* scene builds (value reached by sceneGeneration)
MaxUndisposed == 2     \* leaked textures are counted up to this number
MaxRenders == 2        \* handleRender invocations that reach generateRender
MaxNodes == 1          \* point instances of one payload
MaxPad == 1            \* blanks before and after a type tag
MaxMeshes == 2         \* meshes of one payload
MaxPreviews == 2       \* geometry fetches of the previews
MaxDownloads == 2      \* downloads started
MaxSpan == 14          \* tiles the scene box spans along one axis
MaxSlope == 4          \* change of the solar altitude per quarter of an hour

\* --------------------------------------------------------- program constants
DefaultTimeOfDay == 12
SliderMax == 20
LabelsPerCompass == 4
targetWidth == 1376
targetHeight == 768
\* lengths are counted in 1/100000 of a scene unit, node scales in tenths
ScaleFloor == 10
TrunkWidth == 625
TrunkHeight == 1250
FoliageSize == 1560
InstanceSize == 5000
pad == 3
TileCap == 300
\* retryOperation: the default number of retries and the first wait, in ms
\* canDownload: the largest area of a selection, in km2
MaxAreaKm2 == 5
DefaultRetries == 3
DefaultDelay == 500
\* the hours of the solar path, in quarters of an hour
FirstSample == 16
LastSample == 80

Layers == {"buildings", "surface", "vegetation", "infrastructure", "barriers", "topography"}
\* entries of layerVisibility.surface that the model carries (the source has 20)
SubKeys == {"roadway", "footway"}
\* subtypes a surface mesh of a payload can carry; "plaza" has no map entry
SurfTypes == {"footway", "plaza"}
\* client sizes of the preview container that the model tries
InitialContainer == <<800, 600>>

VARIABLES
  isOpen, isLoading, geometryData,                      \* props
  errorMessage,                                         \* useState of App
  layerVisibility, timeOfDay, isSunStudyEnabled, showDefaultShadows,
  showSolarPath, climateData, isClimateEnabled, sceneGeneration,
  showMapUnderlay,                                      \* useState
  sceneRef, meshGroupRef, layerGroupsRef, sunLightRef,
  windHelperRef, solarHelperRef, mapGroupRef,           \* useRef
  climateFetch,                                         \* promises in flight
  containerSize,                                \* clientWidth, clientHeight
  rendererRef, cameraRef,                               \* useRef
  helperVisible,                  \* .visible of the solar and the wind helper
  animateLoops,                   \* requestAnimationFrame loops that run
  activeTab, isRendering, renderError, renderedImageUrl,
  originalImageUrl,                                     \* useState
  renderCalls,                                  \* handleRender invocations
  ingest,                         \* the node loop of the scene build
  tiles,                          \* the tile loop of the map underlay
  solarArc,                       \* the sampling loop of the solar path
  retry,                          \* one call of retryOperation
  app,                            \* useState of App and its requests in flight
  undisposed,                     \* created by the overlay effects, not disposed
  loads                                                 \* payloads issued

previewVars == <<isOpen, isLoading, geometryData, layerVisibility, timeOfDay,
          isSunStudyEnabled, showDefaultShadows, showSolarPath, climateData,
          isClimateEnabled, sceneGeneration, showMapUnderlay, sceneRef,
          meshGroupRef, layerGroupsRef, sunLightRef, windHelperRef,
          solarHelperRef, mapGroupRef, climateFetch, undisposed, loads,
          containerSize, rendererRef, cameraRef, helperVisible, animateLoops,
          activeTab, isRendering, renderError, renderedImageUrl,
          originalImageUrl, renderCalls, errorMessage>>

vars == <<previewVars, ingest, tiles, solarArc, retry, app>>

\* ------------------------------------------------------------- data values
\* geometryData: null is the record with id 0; every payload object handed
\* to the component has a fresh id (React compares dependencies by identity)
NoGeometry == [id |-> 0, origin |-> FALSE, empty |-> TRUE, surf |-> {}]

EnvShapes == {[origin |-> o, empty |-> e, surf |-> {}] : o \in BOOLEAN, e \in BOOLEAN}
LayerShapes == {[origin |-> TRUE, empty |-> (t = {}), surf |-> t] : t \in SUBSET SurfTypes}

DefaultLayerVisibility ==
  [buildings |-> TRUE,
   surface |-> [k \in {"_group"} \cup SubKeys |-> TRUE],
   vegetation |-> TRUE, infrastructure |-> TRUE, barriers |-> TRUE,
   topography |-> TRUE]

Cur ==
  [isOpen |-> isOpen, isLoading |-> isLoading, geometryData |-> geometryData,
   layerVisibility |-> layerVisibility, timeOfDay |-> timeOfDay,
   isSunStudyEnabled |-> isSunStudyEnabled,
   showDefaultShadows |-> showDefaultShadows, showSolarPath |-> showSolarPath,
   climateData |-> climateData, isClimateEnabled |-> isClimateEnabled,
   sceneGeneration |-> sceneGeneration, showMapUnderlay |-> showMapUnderlay,
   sceneRef |-> sceneRef, meshGroupRef |-> meshGroupRef,
   layerGroupsRef |-> layerGroupsRef, sunLightRef |-> sunLightRef,
   windHelperRef |-> windHelperRef, solarHelperRef |-> solarHelperRef,
   mapGroupRef |-> mapGroupRef, climateFetch |-> climateFetch,
   undisposed |-> undisposed, loads |-> loads,
   containerSize |-> containerSize, rendererRef |-> rendererRef,
   cameraRef |-> cameraRef, helperVisible |-> helperVisible,
   animateLoops |-> animateLoops, activeTab |-> activeTab,
   isRendering |-> isRendering, renderError |-> renderError,
   renderedImageUrl |-> renderedImageUrl,
   originalImageUrl |-> originalImageUrl, renderCalls |-> renderCalls,
   errorMessage |-> errorMessage]

Apply(s) ==
  /\ isOpen' = s.isOpen
  /\ isLoading' = s.isLoading
  /\ geometryData' = s.geometryData
  /\ layerVisibility' = s.layerVisibility
  /\ timeOfDay' = s.timeOfDay
  /\ isSunStudyEnabled' = s.isSunStudyEnabled
  /\ showDefaultShadows' = s.showDefaultShadows
  /\ showSolarPath' = s.showSolarPath
  /\ climateData' = s.climateData
  /\ isClimateEnabled' = s.isClimateEnabled
  /\ sceneGeneration' = s.sceneGeneration
  /\ showMapUnderlay' = s.showMapUnderlay
  /\ sceneRef' = s.sceneRef
  /\ meshGroupRef' = s.meshGroupRef
  /\ layerGroupsRef' = s.layerGroupsRef
  /\ sunLightRef' = s.sunLightRef
  /\ windHelperRef' = s.windHelperRef
  /\ solarHelperRef' = s.solarHelperRef
  /\ mapGroupRef' = s.mapGroupRef
  /\ climateFetch' = s.climateFetch
  /\ undisposed' = s.undisposed
  /\ loads' = s.loads
  /\ containerSize' = s.containerSize
  /\ rendererRef' = s.rendererRef
  /\ cameraRef' = s.cameraRef
  /\ helperVisible' = s.helperVisible
  /\ animateLoops' = s.animateLoops
  /\ activeTab' = s.activeTab
  /\ isRendering' = s.isRendering
  /\ renderError' = s.renderError
  /\ renderedImageUrl' = s.renderedImageUrl
  /\ originalImageUrl' = s.originalImageUrl
  /\ renderCalls' = s.renderCalls
  /\ errorMessage' = s.errorMessage

\* a texture that is created and never disposed, counted up to MaxUndisposed
Leak(n) == IF n + 1 > MaxUndisposed THEN MaxUndisposed ELSE n + 1

\* scene.remove(group): only a child of this scene is detached
RemoveChild(scene, kind, ref) ==
  IF ref = "here" THEN [scene EXCEPT ![kind] = @ - 1] ELSE scene

\* ---------------------------------------------------------------- effects
\* Every effect is Effect(r, s): r is the render whose props/state the
\* closure captured, s the component as the effect finds it.

\* variant: the reset forgets the wind-field toggle
ResetEffectKeepsClimate(r, s) ==
  [s EXCEPT !.isSunStudyEnabled = FALSE,
            !.showSolarPath = FALSE]

ResetEffect(r, s) ==
  [s EXCEPT !.isSunStudyEnabled = FALSE,
            !.showSolarPath = FALSE,
            !.isClimateEnabled = FALSE]

\* variant: a subtype without an entry is hidden
SubVisibleStrict(visible, type) ==
  type \in DOMAIN visible /\ visible[type]

SubVisible(visible, type) ==
  IF type \in DOMAIN visible THEN visible[type] ELSE TRUE

ApplyVisibility(lv, groups) ==
  IF ~groups.set THEN groups
  ELSE [groups EXCEPT
          !.visible = [l \in Layers |->
                         IF l = "surface" THEN lv.surface["_group"] ELSE lv[l]],
          !.children = [t \in DOMAIN groups.children |->
                          SubVisible(lv.surface, t)]]

\* variant: the effect only ever clears flags
LayerEffectHideOnly(r, s) ==
  LET g == ApplyVisibility(r.layerVisibility, s.layerGroupsRef) IN
  [s EXCEPT !.layerGroupsRef =
     [g EXCEPT !.visible = [l \in Layers |-> s.layerGroupsRef.visible[l] /\ g.visible[l]]]]

LayerEffect(r, s) ==
  [s EXCEPT !.layerGroupsRef = ApplyVisibility(r.layerVisibility, s.layerGroupsRef)]

ClimateEffect(r, s) ==
  IF r.geometryData.id # 0 /\ r.geometryData.origin
  THEN [s EXCEPT !.climateFetch[r.geometryData.id] = "pending"]
  ELSE s

WindCleanup(s) ==
  IF s.windHelperRef = "null" THEN s
  ELSE [s EXCEPT !.sceneRef = RemoveChild(s.sceneRef, "wind", s.windHelperRef),
                 !.undisposed.wind = @ - 1,
                 !.windHelperRef = "null"]

\* variant: the previous helper is not removed before a new one is added
WindEffectNoCleanup(r, s) ==
  IF ~s.sceneRef.set \/ r.climateData.gen = 0 \/ ~s.meshGroupRef.set THEN s
  ELSE IF r.isClimateEnabled
       THEN [s EXCEPT !.sceneRef.wind = @ + 1,
                      !.undisposed.wind = @ + 1,
                      !.helperVisible.wind = TRUE,
                      !.windHelperRef = "here"]
       ELSE WindCleanup(s)

WindEffect(r, s) ==
  IF ~s.sceneRef.set \/ r.climateData.gen = 0 \/ ~s.meshGroupRef.set THEN s
  ELSE LET c == WindCleanup(s) IN
       IF r.isClimateEnabled
       THEN [c EXCEPT !.sceneRef.wind = @ + 1,
                      !.undisposed.wind = @ + 1,
                      !.helperVisible.wind = TRUE,
                      !.windHelperRef = "here"]
       ELSE c

NewBackground(s) ==
  IF s.sceneRef.set
  THEN [s EXCEPT !.undisposed.background = Leak(@)]
  ELSE s

\* variant: shadow casting follows the default-shadows toggle under sun study too
SunEffectFollowsToggle(r, s) ==
  IF ~s.sunLightRef.set \/ ~s.meshGroupRef.set THEN s
  ELSE IF ~r.isSunStudyEnabled
       THEN NewBackground([s EXCEPT !.sunLightRef.castShadow = r.showDefaultShadows])
       ELSE LET kept == [s EXCEPT !.sunLightRef.castShadow = r.showDefaultShadows] IN
            IF ~(r.geometryData.id # 0 /\ r.geometryData.origin) THEN kept
            ELSE NewBackground(kept)

SunEffect(r, s) ==
  IF ~s.sunLightRef.set \/ ~s.meshGroupRef.set THEN s
  ELSE IF ~r.isSunStudyEnabled
       THEN NewBackground([s EXCEPT !.sunLightRef.castShadow = r.showDefaultShadows])
       ELSE LET forced == [s EXCEPT !.sunLightRef.castShadow = TRUE] IN
            IF ~(r.geometryData.id # 0 /\ r.geometryData.origin) THEN forced
            ELSE NewBackground(forced)

SolarCleanup(s) ==
  IF s.solarHelperRef = "null" THEN s
  ELSE [s EXCEPT !.sceneRef = RemoveChild(s.sceneRef, "solar", s.solarHelperRef),
                 !.undisposed.solar = @ - 1,
                 !.solarHelperRef = "null"]

SolarEffect(r, s) ==
  IF ~s.sceneRef.set \/ ~s.meshGroupRef.set THEN s
  ELSE LET c == SolarCleanup(s) IN
       IF ~r.showSolarPath \/ ~(r.geometryData.id # 0 /\ r.geometryData.origin)
       THEN c
       ELSE [c EXCEPT !.sceneRef.solar = @ + 1,
                      !.undisposed.solar = @ + 1,
                      !.undisposed.labels = Leak(@),
                      !.helperVisible.solar = TRUE,
                      !.solarHelperRef = "here"]

MapCleanup(s) ==
  IF s.mapGroupRef = "null" THEN s
  ELSE [s EXCEPT !.sceneRef = RemoveChild(s.sceneRef, "map", s.mapGroupRef),
                 !.undisposed.map = @ - 1,
                 !.mapGroupRef = "null"]

MapEffect(r, s) ==
  IF ~s.sceneRef.set \/ ~s.meshGroupRef.set
     \/ ~(r.geometryData.id # 0 /\ r.geometryData.origin) THEN s
  ELSE LET c == MapCleanup(s) IN
       IF r.showMapUnderlay /\ ~s.meshGroupRef.empty
       THEN [c EXCEPT !.sceneRef.map = @ + 1,
                      !.undisposed.map = @ + 1,
                      !.mapGroupRef = "here"]
       ELSE c

\* helper groups stay children of the scene they were added to
Orphan(ref) == IF ref = "here" THEN "old" ELSE ref

SceneCleanup(s) == [s EXCEPT !.sceneRef.live = FALSE]

\* the six layer groups of a new scene, one surface child per subtype of the
\* payload, every flag as three.js creates it (visible)
NewLayerGroups(payload) ==
  [set |-> TRUE, visible |-> [l \in Layers |-> TRUE],
   children |-> [t \in payload.surf |-> TRUE]]

\* variant: the scene build leaves every flag as created
BuildLayerGroupsDefault(r) == NewLayerGroups(r.geometryData)

\* "Apply initial visibility" at the end of the scene build
BuildLayerGroups(r) ==
  ApplyVisibility(r.layerVisibility, NewLayerGroups(r.geometryData))

SceneEffect(r, s) ==
  IF ~r.isOpen \/ r.geometryData.id = 0 THEN s
  ELSE [s EXCEPT
          !.sceneRef = [set |-> TRUE, live |-> TRUE, wind |-> 0, solar |-> 0, map |-> 0],
          !.sceneGeneration = @ + 1,
          !.sunLightRef = [set |-> TRUE, castShadow |-> TRUE],
          !.meshGroupRef = [set |-> TRUE, empty |-> r.geometryData.empty],
          !.cameraRef = [set |-> TRUE, aspect |-> s.containerSize],
          !.rendererRef = [set |-> TRUE, size |-> s.containerSize],
          !.animateLoops = @ + 1,
          !.windHelperRef = Orphan(@),
          !.solarHelperRef = Orphan(@),
          !.mapGroupRef = Orphan(@),
          !.layerGroupsRef = BuildLayerGroups(r)]

\* ------------------------------------------------------------------ commit
\* One stage per effect, in declaration order: the effect runs when an entry
\* of its dependency list differs between the previous render and this one.
\* The cleanup of the scene build runs before any effect of the commit.
RunSceneCleanup(prev, r) ==
  IF (prev.isOpen # r.isOpen \/ prev.geometryData # r.geometryData) /\ r.sceneRef.live
  THEN SceneCleanup(r) ELSE r

RunReset(prev, r, s) ==
  IF prev.geometryData # r.geometryData THEN ResetEffect(r, s) ELSE s

RunLayer(prev, r, s) ==
  IF prev.layerVisibility # r.layerVisibility THEN LayerEffect(r, s) ELSE s

RunClimate(prev, r, s) ==
  IF prev.geometryData # r.geometryData THEN ClimateEffect(r, s) ELSE s

RunWind(prev, r, s) ==
  IF \/ prev.isClimateEnabled # r.isClimateEnabled
     \/ prev.climateData # r.climateData
     \/ prev.timeOfDay # r.timeOfDay
     \/ prev.sceneGeneration # r.sceneGeneration
  THEN WindEffect(r, s) ELSE s

RunSun(prev, r, s) ==
  IF \/ prev.timeOfDay # r.timeOfDay
     \/ prev.geometryData # r.geometryData
     \/ prev.isSunStudyEnabled # r.isSunStudyEnabled
     \/ prev.sceneGeneration # r.sceneGeneration
     \/ prev.showDefaultShadows # r.showDefaultShadows
  THEN SunEffect(r, s) ELSE s

RunSolar(prev, r, s) ==
  IF \/ prev.showSolarPath # r.showSolarPath
     \/ prev.timeOfDay # r.timeOfDay
     \/ prev.geometryData # r.geometryData
     \/ prev.isSunStudyEnabled # r.isSunStudyEnabled
     \/ prev.sceneGeneration # r.sceneGeneration
  THEN SolarEffect(r, s) ELSE s

\* variant: the map underlay does not depend on the scene generation
RunMapOnPayloadOnly(prev, r, s) ==
  IF \/ prev.showMapUnderlay # r.showMapUnderlay
     \/ prev.geometryData # r.geometryData
  THEN MapEffect(r, s) ELSE s

RunMap(prev, r, s) ==
  IF \/ prev.showMapUnderlay # r.showMapUnderlay
     \/ prev.geometryData # r.geometryData
     \/ prev.sceneGeneration # r.sceneGeneration
  THEN MapEffect(r, s) ELSE s

RunScene(prev, r, s) ==
  IF prev.isOpen # r.isOpen \/ prev.geometryData # r.geometryData
  THEN SceneEffect(r, s) ELSE s

Pass(prev, r) ==
  RunScene(prev, r,
    RunMap(prev, r,
      RunSolar(prev, r,
        RunSun(prev, r,
          RunWind(prev, r,
            RunClimate(prev, r,
              RunLayer(prev, r,
                RunReset(prev, r,
                  RunSceneCleanup(prev, r)))))))))

SetByEffects(s) ==
  <<s.isSunStudyEnabled, s.showSolarPath, s.isClimateEnabled, s.sceneGeneration>>

RECURSIVE Settle(_, _)
Settle(prev, r) ==
  LET a == Pass(prev, r) IN
  IF SetByEffects(a) = SetByEffects(r) THEN a ELSE Settle(r, a)

Step(next) ==
  \E s \in {Settle(Cur, next)} :
    /\ s.sceneGeneration <= MaxBuilds
    /\ Apply(s)
    /\ UNCHANGED <<ingest, tiles, solarArc, retry, app>>

\* ------------------------------------------------ scene build: the node loop
\* A type tag is a sequence of characters.
Letters == <<"a", "b", "c", "d", "e", "f", "g", "h", "i", "j", "k", "l", "m",
             "n", "o", "p", "q", "r", "s", "t", "u", "v", "w", "x", "y", "z">>
Capitals == <<"A", "B", "C", "D", "E", "F", "G", "H", "I", "J", "K", "L", "M",
              "N", "O", "P", "Q", "R", "S", "T", "U", "V", "W", "X", "Y", "Z">>

LowerChar(c) ==
  IF \E i \in DOMAIN Capitals : Capitals[i] = c
  THEN Letters[CHOOSE i \in DOMAIN Capitals : Capitals[i] = c]
  ELSE c

UpperChar(c) ==
  IF \E i \in DOMAIN Letters : Letters[i] = c
  THEN Capitals[CHOOSE i \in DOMAIN Letters : Letters[i] = c]
  ELSE c

toLowerCase(str) == [i \in DOMAIN str |-> LowerChar(str[i])]

RECURSIVE trimStart(_)
trimStart(str) ==
  IF str # <<>> /\ Head(str) = " " THEN trimStart(Tail(str)) ELSE str

RECURSIVE trimEnd(_)
trimEnd(str) ==
  IF str # <<>> /\ str[Len(str)] = " "
  THEN trimEnd(SubSeq(str, 1, Len(str) - 1)) ELSE str

trim(str) == trimEnd(trimStart(str))

includes(str, part) ==
  \E i \in 1..(Len(str) - Len(part) + 1) : SubSeq(str, i, i + Len(part) - 1) = part

W_tree == <<"t", "r", "e", "e">>
W_default == <<"d", "e", "f", "a", "u", "l", "t">>
W_shrubbery == <<"s", "h", "r", "u", "b", "b", "e", "r", "y">>
W_utilitypole == <<"u", "t", "i", "l", "i", "t", "y", "p", "o", "l", "e">>
W_utilityPole == <<"u", "t", "i", "l", "i", "t", "y", "P", "o", "l", "e">>
W_bench == <<"b", "e", "n", "c", "h">>

knownNonTreeTypes ==
  {W_shrubbery, W_utilitypole, W_bench, <<"h", "y", "d", "r", "a", "n", "t">>,
   <<"r", "o", "c", "k">>, <<"i", "l", "l", "u", "s", "t", "r", "a", "t", "i", "o", "n">>,
   <<"a", "d", "c", "o", "l", "u", "m", "n">>, <<"a", "c", "_", "u", "n", "i", "t">>}

\* COLORS.infrastructure, by key
InfrastructureColors ==
  {<<W_tree, "#228B22">>, <<W_shrubbery, "#8FBC8F">>, <<W_bench, "#A0522D">>,
   <<W_utilityPole, "#696969">>, <<W_default, "#AAAAAA">>}

HasColor(key) == \E e \in InfrastructureColors : e[1] = key
ColorOf(key) == (CHOOSE e \in InfrastructureColors : e[1] = key)[2]

\* a tag that is absent (undefined) in the payload; a number of the payload
\* is <<n>>, or <<>> when it is absent
Absent == <<"undefined">>

\* a || b || ... on type tags: absent and the empty string are falsy
Truthy(tag) == tag # Absent /\ tag # <<>>

rawTypeOf(node) ==
  IF Truthy(node.instanceType) THEN node.instanceType
  ELSE IF Truthy(node.type) THEN node.type
  ELSE W_default

nodeTypeOf(node) == trim(toLowerCase(rawTypeOf(node)))

\* variant: only tags that name a tree are trees
isTreeStrict(nodeType) == includes(nodeType, W_tree)

isTree(nodeType) ==
  includes(nodeType, W_tree) \/ nodeType \notin knownNonTreeTypes

categoryOf(nodeType) ==
  IF nodeType = W_utilitypole THEN "utilityPole"
  ELSE IF nodeType = W_shrubbery THEN "shrubbery"
  ELSE IF nodeType = W_bench THEN "bench"
  ELSE "default"

\* what the loop makes of a node: a tree, or the category of its batch
classify(node) ==
  IF isTree(nodeTypeOf(node)) THEN "tree" ELSE categoryOf(nodeTypeOf(node))

\* node.scale || 1, in tenths: absent and 0 are falsy
scaleOf(node) ==
  IF node.scale = <<>> \/ node.scale = <<0>> THEN ScaleFloor ELSE node.scale[1]

Max(a, b) == IF a >= b THEN a ELSE b

\* node.x || 0
coordOf(v) == IF v = <<>> THEN 0 ELSE v[1]

infraColorOf(node) ==
  IF HasColor(nodeTypeOf(node)) THEN ColorOf(nodeTypeOf(node))
  ELSE IF HasColor(rawTypeOf(node)) THEN ColorOf(rawTypeOf(node))
  ELSE ColorOf(W_default)

\* variant: the tree scale is the input scale, without the floor
treeScaleOfUnfloored(node) == scaleOf(node)

treeScaleOf(node) == Max(scaleOf(node), ScaleFloor)

\* variant: a tree is a single instance
PushTreeTrunkOnly(inst, node) ==
  [inst EXCEPT
     !["tree_trunk"] = Append(@,
        [position |-> <<coordOf(node.x), coordOf(node.y), coordOf(node.z)>>,
         scale |-> <<treeScaleOf(node) * TrunkWidth, treeScaleOf(node) * TrunkHeight,
                     treeScaleOf(node) * TrunkWidth>>,
         color |-> "#5D4037"])]

PushTree(inst, node) ==
  [inst EXCEPT
     !["tree_trunk"] = Append(@,
        [position |-> <<coordOf(node.x), coordOf(node.y), coordOf(node.z)>>,
         scale |-> <<treeScaleOf(node) * TrunkWidth, treeScaleOf(node) * TrunkHeight,
                     treeScaleOf(node) * TrunkWidth>>,
         color |-> "#5D4037"]),
     !["tree_foliage"] = Append(@,
        [position |-> <<coordOf(node.x),
                        coordOf(node.y) + treeScaleOf(node) * FoliageSize,
                        coordOf(node.z)>>,
         scale |-> <<treeScaleOf(node) * FoliageSize, treeScaleOf(node) * FoliageSize,
                     treeScaleOf(node) * FoliageSize>>,
         color |-> ColorOf(W_tree)])]

PushOther(inst, node) ==
  LET finalScale == Max(scaleOf(node), ScaleFloor) * InstanceSize IN
  [inst EXCEPT
     ![categoryOf(nodeTypeOf(node))] = Append(@,
        [position |-> <<coordOf(node.x), coordOf(node.y), coordOf(node.z)>>,
         scale |-> <<finalScale, finalScale, finalScale>>,
         color |-> infraColorOf(node)])]

\* one round of geomData.nodes.forEach
IngestNodeH(g, node) ==
  [g EXCEPT !.instances = IF isTree(nodeTypeOf(node)) THEN PushTree(@, node)
                          ELSE PushOther(@, node),
            !.last = node,
            !.count = @ + 1]

targetLayerOf(category) ==
  IF category \in {"tree_trunk", "tree_foliage", "shrubbery"}
  THEN "vegetation" ELSE "infrastructure"

\* Object.entries(instances).forEach: one InstancedMesh per batch that is not empty
CreateInstancedMeshesH(g) ==
  [g EXCEPT !.meshes = {[category |-> c, layer |-> targetLayerOf(c),
                         count |-> Len(g.instances[c])] :
                          c \in {k \in DOMAIN g.instances : g.instances[k] # <<>>}},
            !.pc = "built"]

\* the payloads' point instances that the model tries
Casings == {"lower", "upper", "capital"}

TagWords ==
  knownNonTreeTypes
    \cup {W_tree, W_default, <<>>, <<"o", "a", "k", "t", "r", "e", "e">>,
          <<"l", "a", "m", "p">>, <<"s", "t", "r", "e", "e", "t", "_", "t", "r", "e", "e">>}

\* a word in one of the casings, with l blanks before it and r after it
TagText(word, casing, l, r) ==
  [i \in 1..l |-> " "]
    \o [i \in DOMAIN word |->
          IF casing = "upper" \/ (casing = "capital" /\ i = 1)
          THEN UpperChar(word[i]) ELSE word[i]]
    \o [i \in 1..r |-> " "]

PayloadNodes ==
  LET RawTags ==
        {TagText(w, c, l, r) : w \in TagWords, c \in Casings, l \in 0..MaxPad, r \in 0..MaxPad}
          \cup {W_utilityPole}
      NodeScales == {<<>>, <<0>>, <<0 - 5>>, <<3>>, <<10>>, <<15>>, <<25>>}
      NodePositions ==
        {<<<<0>>, <<0>>, <<0>>>>, <<<<300000>>, <<200000>>, <<500000>>>>,
         <<<<>>, <<100000>>, <<>>>>}
      TagNodes ==
        {[instanceType |-> Absent, type |-> t, scale |-> <<>>, x |-> <<0>>, y |-> <<0>>, z |-> <<0>>] :
           t \in RawTags \cup {Absent}}
          \cup {[instanceType |-> it, type |-> W_bench, scale |-> <<>>,
                 x |-> <<0>>, y |-> <<0>>, z |-> <<0>>] :
                  it \in {<<>>, W_tree, W_shrubbery, <<"R", "o", "c", "k", " ">>}}
      ScaleNodes ==
        {[instanceType |-> Absent, type |-> t, scale |-> sc, x |-> p[1], y |-> p[2], z |-> p[3]] :
           t \in {W_tree, W_bench, W_utilityPole}, sc \in NodeScales, p \in NodePositions}
  IN  TagNodes \cup ScaleNodes

IngestNode ==
  /\ ingest.pc = "nodes"
  /\ ingest.count < MaxNodes
  /\ \E node \in PayloadNodes : ingest' = IngestNodeH(ingest, node)
  /\ UNCHANGED <<previewVars, tiles, solarArc, retry, app>>

CreateInstancedMeshes ==
  /\ ingest.pc = "nodes"
  /\ ingest' = CreateInstancedMeshesH(ingest)
  /\ UNCHANGED <<previewVars, tiles, solarArc, retry, app>>

\* ------------------------------------------------ scene build: the mesh loop
\* the meshes that the model tries: an element type and a vertex list that is
\* absent, empty, one triangle or two
PayloadMeshes ==
  [type : {"buildings", "surface", "infrastructure", "barriers", "topography", "other"},
   vertices : {Absent, <<>>, <<0, 0, 0, 1, 0, 0, 0, 1, 0>>,
               <<0, 0, 0, 1, 0, 0, 0, 1, 0, 0, 0, 1, 1, 0, 1, 0, 1, 1>>}]

\* variant: only an absent vertex list is skipped
skipsMeshIfAbsent(mesh) == mesh.vertices = Absent

skipsMesh(mesh) == mesh.vertices = Absent \/ Len(mesh.vertices) = 0

\* one round of geomData.meshes.forEach
IngestMeshH(g, mesh) ==
  IF skipsMesh(mesh)
  THEN [g EXCEPT !.lastMesh = mesh, !.meshCount = @ + 1]
  ELSE [g EXCEPT
          !.lastMesh = mesh,
          !.meshCount = @ + 1,
          !.objects = Append(@,
             [layer |-> IF mesh.type \in {"buildings", "surface", "infrastructure",
                                          "barriers", "topography"}
                        THEN mesh.type ELSE "infrastructure",
              positions |-> Len(mesh.vertices) \div 3,
              edges |-> mesh.type = "buildings"]),
          !.totalMeshes = @ + 1,
          !.totalVertices = @ + Len(mesh.vertices) \div 3]

IngestMesh ==
  /\ ingest.meshCount < MaxMeshes
  /\ \E mesh \in PayloadMeshes : ingest' = IngestMeshH(ingest, mesh)
  /\ UNCHANGED <<previewVars, tiles, solarArc, retry, app>>

\* ------------------------------------------------ storage: retryOperation
\* variant: one more retry is granted when none is left
catchOfOneMore(r, err) ==
  IF (err.name = "InvalidStateError" \/ err.stateCached) /\ r.retries < 0
  THEN [r EXCEPT !.pc = "thrown", !.failures = Append(@, err),
                 !.thrown = [name |-> "HANDLE_INVALIDATED", stateCached |-> FALSE]]
  ELSE IF r.retries >= 0
  THEN [r EXCEPT !.pc = "waiting", !.failures = Append(@, err)]
  ELSE [r EXCEPT !.pc = "thrown", !.failures = Append(@, err), !.thrown = err]

\* the catch block; stateCached says whether err.message holds 'state cached'
catchOf(r, err) ==
  IF (err.name = "InvalidStateError" \/ err.stateCached) /\ r.retries <= 0
  THEN [r EXCEPT !.pc = "thrown", !.failures = Append(@, err),
                 !.thrown = [name |-> "HANDLE_INVALIDATED", stateCached |-> FALSE]]
  ELSE IF r.retries > 0
  THEN [r EXCEPT !.pc = "waiting", !.failures = Append(@, err)]
  ELSE [r EXCEPT !.pc = "thrown", !.failures = Append(@, err), !.thrown = err]

\* saveFileToDirectory calls retryOperation with its defaults; delay2 is the
\* delay in half milliseconds, which keeps delay * 1.5 an integer
SaveFile ==
  /\ retry.pc \in {"idle", "returned", "thrown"}
  /\ retry' = [pc |-> "running", retries |-> DefaultRetries, delay2 |-> 2 * DefaultDelay,
               attempts |-> 1, waits |-> <<>>, failures |-> <<>>, result |-> 0,
               thrown |-> [name |-> "none", stateCached |-> FALSE]]
  /\ UNCHANGED <<previewVars, ingest, tiles, solarArc, app>>

\* await operation() settles: it resolves, or rejects with one of four errors
OperationSettles ==
  /\ retry.pc = "running"
  /\ \/ retry' = [retry EXCEPT !.pc = "returned", !.result = retry.attempts]
     \/ \E err \in [name : {"InvalidStateError", "NotAllowedError"}, stateCached : BOOLEAN] :
          retry' = catchOf(retry, err)
  /\ UNCHANGED <<previewVars, ingest, tiles, solarArc, app>>

\* the wait is over: retryOperation(operation, retries - 1, delay * 1.5)
RetryTimer ==
  /\ retry.pc = "waiting"
  /\ retry' = [retry EXCEPT !.pc = "running",
                            !.waits = Append(@, retry.delay2 \div 2),
                            !.retries = @ - 1,
                            !.delay2 = (@ * 3) \div 2,
                            !.attempts = @ + 1]
  /\ UNCHANGED <<previewVars, ingest, tiles, solarArc, app>>

\* ------------------------------------------------------------------ App
\* the preview modal covers the map and the control panel, so the controls
\* under it act only while it is closed;
\* a polygon is "null", "empty" (the array []) or one of two shapes; areas are
\* whole km2; a geometry (previewData, the cache file) is a record of the
\* polygon and the settings it was fetched for, known saying whether the
\* settings were stored with it
canDownload(a) ==
  a.selectedPolygon # "null" /\ a.areaKm2 > 0 /\ a.areaKm2 <= MaxAreaKm2 /\ a.apiKey

isDownloading(a) == a.status \in {"PREPARING", "REQUESTING", "PROCESSING", "DOWNLOADING"}

\* setStatus and setProgress, called together; trace keeps the pairs that
\* were set since the last download started
setStatus(a, status, progress) ==
  [a EXCEPT !.status = status, !.progress = progress,
            !.trace = Append(@, <<status, progress>>)]

\* handlePolygonChange, called by the map: while a shape is drawn with [] and
\* the area so far, with the shape when it is created or edited
PolygonChange ==
  /\ ~app.showPreview
  /\ \E ev \in {<<"empty", 3>>, <<"P1", 3>>, <<"P2", 3>>, <<"P1", 7>>} :
       app' = [app EXCEPT !.selectedPolygon = ev[1], !.areaKm2 = ev[2]]
  /\ UNCHANGED <<previewVars, ingest, tiles, solarArc, retry>>

ClearSelection ==
  /\ ~app.showPreview
  /\ app' = [app EXCEPT !.selectedPolygon = "null", !.areaKm2 = 0]
  /\ UNCHANGED <<previewVars, ingest, tiles, solarArc, retry>>

SetApiKey ==
  /\ ~app.showPreview
  /\ \E key \in BOOLEAN : app' = [app EXCEPT !.apiKey = key]
  /\ UNCHANGED <<previewVars, ingest, tiles, solarArc, retry>>

ChangeSettings ==
  /\ ~app.showPreview
  /\ \E st \in {[topographyModel |-> FALSE, geometry |-> "all"],
                 [topographyModel |-> TRUE, geometry |-> "all"],
                 [topographyModel |-> FALSE, geometry |-> "buildings"]} :
       app' = [app EXCEPT !.settings = st]
  /\ UNCHANGED <<previewVars, ingest, tiles, solarArc, retry>>

\* a folder is linked; it may hold a cache file of an earlier session, in
\* the wrapped format with or without settings
LinkFolder ==
  /\ ~app.showPreview
  /\ ~app.downloadHandle
  /\ \E file \in [set : BOOLEAN, for : {"P1"}, known : BOOLEAN,
                  with : [topographyModel : {FALSE}, geometry : {"all"}]] :
       /\ ~file.set => file.known
       /\ app' = [app EXCEPT !.downloadHandle = TRUE, !.cache = file]
  /\ UNCHANGED <<previewVars, ingest, tiles, solarArc, retry>>

\* handlePreview up to its fetch; i is the fetch it would issue, with the
\* polygon and the settings of its payload
handlePreview(a, i) ==
  IF ~a.apiKey \/ a.selectedPolygon = "null"
  THEN IF ~a.apiKey THEN [a EXCEPT !.errorMessage = TRUE] ELSE a
  ELSE IF a.previewData.set /\ a.lastPreviewedPolygon # "null"
          /\ a.lastPreviewedPolygon = a.selectedPolygon
  THEN [a EXCEPT !.isLoadingPreview = FALSE, !.showPreview = TRUE]
  ELSE IF /\ a.downloadHandle /\ a.cache.set
          /\ a.cache.for = a.selectedPolygon
          /\ (~a.cache.known
                \/ a.cache.with.topographyModel = a.settings.topographyModel)
  THEN [a EXCEPT !.showPreview = TRUE, !.errorMessage = FALSE,
                 !.previewData = a.cache,
                 !.lastPreviewedPolygon = a.selectedPolygon,
                 !.isLoadingPreview = FALSE]
  ELSE [a EXCEPT !.isLoadingPreview = TRUE, !.showPreview = TRUE,
                 !.previewData.set = FALSE, !.errorMessage = FALSE,
                 !.fetches[i] = [pc |-> "pending", polygon |-> a.selectedPolygon,
                                 handle |-> a.downloadHandle, settings |-> a.settings]]

\* the Preview button of the control panel
PreviewClick ==
  /\ canDownload(app) /\ ~isDownloading(app) /\ ~app.showPreview
  /\ \E i \in 1..MaxPreviews :
       /\ app.fetches[i].pc = "none"
       /\ \A j \in 1..(i - 1) : app.fetches[j].pc # "none"
       /\ app' = handlePreview(app, i)
  /\ UNCHANGED <<previewVars, ingest, tiles, solarArc, retry>>

\* fetchGeometryJson of one handlePreview settles: the rest of its try
\* block with the cache save, or its catch block, and its finally block
PreviewFetchSettles ==
  /\ \E i \in 1..MaxPreviews, ok \in BOOLEAN :
       /\ app.fetches[i].pc = "pending"
       /\ app' =
            IF ok
            THEN [app EXCEPT
                    !.previewData = [set |-> TRUE, for |-> app.fetches[i].polygon,
                                     known |-> TRUE, with |-> app.fetches[i].settings],
                    !.lastPreviewedPolygon = app.fetches[i].polygon,
                    !.cache = IF app.fetches[i].handle
                              THEN [set |-> TRUE, for |-> app.fetches[i].polygon,
                                    known |-> TRUE, with |-> app.fetches[i].settings]
                              ELSE @,
                    !.isLoadingPreview = FALSE,
                    !.fetches[i].pc = "resolved"]
            ELSE [app EXCEPT !.errorMessage = TRUE, !.showPreview = FALSE,
                             !.isLoadingPreview = FALSE,
                             !.fetches[i].pc = "rejected"]
  /\ UNCHANGED <<previewVars, ingest, tiles, solarArc, retry>>

\* onClose of the preview modal
ClosePreviewModal ==
  /\ app.showPreview
  /\ app' = [app EXCEPT !.showPreview = FALSE]
  /\ UNCHANGED <<previewVars, ingest, tiles, solarArc, retry>>

\* processLoadedFile with a wrapped file: its polygon becomes the selection,
\* with the area that calculateAreaFromPolygon finds
processLoadedFile ==
  /\ ~app.showPreview
  /\ \E file \in {<<"P1", 3>>, <<"P2", 7>>} :
       app' = [app EXCEPT
                 !.previewData = [set |-> TRUE, for |-> file[1], known |-> TRUE,
                                  with |-> [topographyModel |-> FALSE, geometry |-> "all"]],
                 !.lastPreviewedPolygon = file[1],
                 !.showPreview = TRUE,
                 !.selectedPolygon = file[1],
                 !.areaKm2 = file[2]]
  /\ UNCHANGED <<previewVars, ingest, tiles, solarArc, retry>>

\* handleDownload up to await requestCityweftData; i is the download, whose
\* payload holds the selected polygon
handleDownload(a, i) ==
  IF ~a.apiKey \/ a.selectedPolygon = "null"
  THEN IF ~a.apiKey THEN [a EXCEPT !.errorMessage = TRUE] ELSE a
  ELSE setStatus(
         setStatus([a EXCEPT !.trace = <<>>, !.errorMessage = FALSE,
                             !.downloads[i] = "requesting"],
                   "PREPARING", 5),
         "REQUESTING", 20)

\* the Extract button of the control panel
DownloadClick ==
  /\ canDownload(app) /\ ~isDownloading(app) /\ ~app.showPreview
  /\ \E i \in 1..MaxDownloads :
       /\ app.downloads[i] = "none"
       /\ \A j \in 1..(i - 1) : app.downloads[j] # "none"
       /\ app' = handleDownload(app, i)
  /\ UNCHANGED <<previewVars, ingest, tiles, solarArc, retry>>

\* the Download Model button of the preview modal
handleDownloadFromPreview ==
  /\ app.showPreview /\ ~app.isLoadingPreview
  /\ \E i \in 1..MaxDownloads :
       /\ app.downloads[i] = "none"
       /\ \A j \in 1..(i - 1) : app.downloads[j] # "none"
       /\ app' = handleDownload([app EXCEPT !.showPreview = FALSE], i)
  /\ UNCHANGED <<previewVars, ingest, tiles, solarArc, retry>>

\* an await of one handleDownload settles: the request, then the saving
DownloadSettles ==
  /\ \E i \in 1..MaxDownloads, ok \in BOOLEAN :
       /\ app.downloads[i] \in {"requesting", "saving"}
       /\ app' =
            IF ~ok
            THEN [setStatus(app, "ERROR", app.progress)
                    EXCEPT !.errorMessage = TRUE, !.downloads[i] = "failed"]
            ELSE IF app.downloads[i] = "requesting"
            THEN [setStatus(setStatus(app, "PROCESSING", 50), "DOWNLOADING", 80)
                    EXCEPT !.downloads[i] = "saving"]
            ELSE [setStatus(app, "SUCCESS", 100) EXCEPT !.downloads[i] = "armed"]
  /\ UNCHANGED <<previewVars, ingest, tiles, solarArc, retry>>

\* the timer that a successful download set fires after 5 seconds
SuccessTimer ==
  /\ \E i \in 1..MaxDownloads :
       /\ app.downloads[i] = "armed"
       /\ app' = [setStatus(app, "IDLE", 0) EXCEPT !.downloads[i] = "fired"]
  /\ UNCHANGED <<previewVars, ingest, tiles, solarArc, retry>>

\* ------------------------------------------- map underlay: the tile loop

\* the tile ranges that the model tries, from one corner of the scene box
TileRanges ==
  {[minTx |-> 262000, maxTx |-> 262000 + w - 1, minTy |-> 174000, maxTy |-> 174000 + h - 1] :
     w \in 1..MaxSpan, h \in 1..MaxSpan}

tileCountOf(range) ==
  (range.maxTx - range.minTx + 1 + 2 * pad) * (range.maxTy - range.minTy + 1 + 2 * pad)

\* variant: the cap is twice as high
capReachedLate(loadedCount) == loadedCount >= 2 * TileCap

capReached(loadedCount) == loadedCount >= TileCap

\* for (ty ...): one column of tiles, left at the cap by the break
RECURSIVE ColumnLoop(_, _, _)
ColumnLoop(ty, loadedCount, range) ==
  IF ty > range.maxTy + pad \/ capReached(loadedCount) THEN loadedCount
  ELSE ColumnLoop(ty + 1, loadedCount + 1, range)

\* for (tx ...): the break does not leave the outer loop
RECURSIVE TileLoop(_, _, _)
TileLoop(tx, loadedCount, range) ==
  IF tx > range.maxTx + pad THEN loadedCount
  ELSE TileLoop(tx + 1, ColumnLoop(range.minTy - pad, loadedCount, range), range)

ProjectTilesH(t, range) ==
  [t EXCEPT !.range = range,
            !.warned = tileCountOf(range) > TileCap,
            !.loadedCount = TileLoop(range.minTx - pad, 0, range),
            !.added = TRUE]

ProjectTiles ==
  /\ \E range \in TileRanges : tiles' = ProjectTilesH(tiles, range)
  /\ UNCHANGED <<previewVars, ingest, solarArc, retry, app>>

\* --------------------------------------------- solar path: the sampling loop

\* the solar altitude of a day, in hundredths of a radian, as a function of
\* the time in quarters of an hour: SunCalc.getPosition is not in the sources
SolarDays ==
  [peak : {0 - 20, 0 - 10, 0, 30, 60, 90, 110}, noon : 44..52, slope : 1..MaxSlope]

altitudeOf(day, q) ==
  day.peak - day.slope * (IF q < day.noon THEN day.noon - q ELSE q - day.noon)

nearHorizon(altitude) == altitude > 0 - 10

RECURSIVE SampleLoop(_, _, _)
SampleLoop(q, arc, day) ==
  IF q > LastSample THEN arc
  ELSE SampleLoop(q + 1,
         [arc EXCEPT
            !.sampled = Append(@, [hours |-> q \div 4, minutes |-> (q % 4) * 15]),
            !.pathPoints = IF nearHorizon(altitudeOf(day, q))
                           THEN Append(@, [hours |-> q \div 4, minutes |-> (q % 4) * 15,
                                           altitude |-> altitudeOf(day, q)])
                           ELSE @],
         day)

\* the line is made of two points or more
FinishArc(arc) == [arc EXCEPT !.line = Len(arc.pathPoints) > 1, !.drawn = TRUE]

DrawSolarPathH(a, day) ==
  FinishArc(SampleLoop(FirstSample,
                       [a EXCEPT !.day = day, !.sampled = <<>>, !.pathPoints = <<>>],
                       day))

DrawSolarPath ==
  /\ \E day \in SolarDays : solarArc' = DrawSolarPathH(solarArc, day)
  /\ UNCHANGED <<previewVars, ingest, tiles, retry, app>>

\* ------------------------------------------------- parent (App) side: props
NewPayload(s, shape) ==
  [id |-> s.loads + 1, origin |-> shape.origin, empty |-> shape.empty,
   surf |-> shape.surf]

RequestPreviewH(s) ==
  [s EXCEPT !.isLoading = TRUE, !.isOpen = TRUE, !.geometryData = NoGeometry,
            !.errorMessage = FALSE]

ReopenPreviewH(s) == [s EXCEPT !.isLoading = FALSE, !.isOpen = TRUE]

GeometryArrivesH(s, shape) ==
  [s EXCEPT !.geometryData = NewPayload(s, shape), !.loads = @ + 1,
            !.isLoading = FALSE]

PreviewFailsH(s) ==
  [s EXCEPT !.errorMessage = TRUE, !.isOpen = FALSE, !.isLoading = FALSE]

LoadFileH(s, shape) ==
  [s EXCEPT !.geometryData = NewPayload(s, shape), !.loads = @ + 1,
            !.isOpen = TRUE]

CloseH(s) == [s EXCEPT !.isOpen = FALSE]

RequestPreview == ~isLoading /\ Step(RequestPreviewH(Cur))

ReopenPreview == ~isLoading /\ ~isOpen /\ geometryData.id # 0 /\ Step(ReopenPreviewH(Cur))

GeometryArrives(shapes) ==
  \E shape \in shapes :
    isLoading /\ loads < MaxLoads /\ Step(GeometryArrivesH(Cur, shape))

PreviewFails == isLoading /\ Step(PreviewFailsH(Cur))

LoadFile(shapes) ==
  \E shape \in shapes : loads < MaxLoads /\ Step(LoadFileH(Cur, shape))

ClosePreview == isOpen /\ Step(CloseH(Cur))

\* ------------------------------------------------------- climate promise
\* fetchClimateData never rejects: it resolves to the data or to null
ClimateThen(s, g, data) ==
  [s EXCEPT !.climateFetch[g] = IF data THEN "data" ELSE "null",
            !.climateData = IF data THEN [gen |-> g] ELSE @]

ClimateArrives ==
  \E g \in 1..MaxLoads :
    climateFetch[g] = "pending" /\ Step(ClimateThen(Cur, g, TRUE))

ClimateFails ==
  \E g \in 1..MaxLoads :
    climateFetch[g] = "pending" /\ Step(ClimateThen(Cur, g, FALSE))

\* ------------------------------------------------------------ user handlers
ToggleLayerH(s, l) ==
  IF l = "surface"
  THEN [s EXCEPT !.layerVisibility.surface["_group"] = ~@]
  ELSE [s EXCEPT !.layerVisibility[l] = ~@]

ToggleSubLayerH(s, k) == [s EXCEPT !.layerVisibility.surface[k] = ~@]

SetTimeOfDayH(s, t) == [s EXCEPT !.timeOfDay = t]

SolarPathClick(s) == [s EXCEPT !.showSolarPath = ~@]

DefaultShadowsClick(s) == [s EXCEPT !.showDefaultShadows = ~@]

MapUnderlayClick(s) == [s EXCEPT !.showMapUnderlay = ~@]

\* variant: the sun-study button leaves the wind-field toggle alone
SunStudyClickKeepsClimate(s) == [s EXCEPT !.isSunStudyEnabled = ~@]

SunStudyClick(s) ==
  [s EXCEPT !.isSunStudyEnabled = ~@,
            !.isClimateEnabled = IF s.isSunStudyEnabled THEN FALSE ELSE @]

ClimateClick(s) == [s EXCEPT !.isClimateEnabled = ~@]

ToggleLayer == \E l \in Layers : isOpen /\ Step(ToggleLayerH(Cur, l))

ToggleSubLayer == \E k \in SubKeys : isOpen /\ Step(ToggleSubLayerH(Cur, k))

SetTimeOfDay == \E t \in {DefaultTimeOfDay, SliderMax} : isOpen /\ t # timeOfDay /\ Step(SetTimeOfDayH(Cur, t))

ToggleSolarPath == isOpen /\ Step(SolarPathClick(Cur))

ToggleDefaultShadows == isOpen /\ ~isSunStudyEnabled /\ Step(DefaultShadowsClick(Cur))

ToggleMapUnderlay == isOpen /\ Step(MapUnderlayClick(Cur))

ToggleSunStudy == isOpen /\ Step(SunStudyClick(Cur))

ToggleClimate == isOpen /\ Step(ClimateClick(Cur))

\* ------------------------------------------------------------------ resize
handleResize(s, size) ==
  IF s.sceneRef.live
  THEN [s EXCEPT !.containerSize = size,
                 !.cameraRef.aspect = size,
                 !.rendererRef.size = size]
  ELSE [s EXCEPT !.containerSize = size]

WindowResize ==
  \E size \in {<<800, 600>>, <<1024, 768>>} :
    size # containerSize /\ Step(handleResize(Cur, size))

\* ------------------------------------------------------------------ render
\* what the network and the service can answer to one generateRender call
RenderReplies ==
  [fetch : {"ok", "http_error", "reject"}, body : {"image", "no_image", "bad_json"}]

\* generateRender: every throw inside its try block is turned into an
\* error result by its catch block
generateRender(reply) ==
  IF reply.fetch = "ok" /\ reply.body = "image"
  THEN [status |-> "success", image |-> TRUE, error |-> FALSE]
  ELSE [status |-> "error", image |-> FALSE, error |-> TRUE]

HideHelpers(s) ==
  [s EXCEPT !.helperVisible.solar = IF s.solarHelperRef # "null" THEN FALSE ELSE @,
            !.helperVisible.wind = IF s.windHelperRef # "null" THEN FALSE ELSE @]

ResizeForCapture(s) ==
  [s EXCEPT !.rendererRef.size = <<targetWidth, targetHeight>>,
            !.cameraRef.aspect = <<targetWidth, targetHeight>>]

\* variant: the renderer and the camera keep the capture size
RestoreViewSkipped(s, before) == s

RestoreView(s, before) ==
  [s EXCEPT !.rendererRef.size = before.rendererRef.size,
            !.cameraRef.aspect = before.cameraRef.aspect]

RestoreHelpers(s, before) ==
  [s EXCEPT !.helperVisible.solar =
              IF s.solarHelperRef # "null" THEN before.helperVisible.solar ELSE @,
            !.helperVisible.wind =
              IF s.windHelperRef # "null" THEN before.helperVisible.wind ELSE @]

\* the synchronous part of handleRender, up to its first await
CaptureView(s) == RestoreHelpers(RestoreView(ResizeForCapture(HideHelpers(s)), s), s)

FreeRenderCall(s) ==
  CHOOSE i \in 1..MaxRenders :
    s.renderCalls[i] = "none" /\ \A j \in 1..(i - 1) : s.renderCalls[j] # "none"

handleRender(s, hasKey) ==
  IF ~s.rendererRef.set \/ ~hasKey THEN s
  ELSE LET i == FreeRenderCall(s) IN
       [CaptureView(s) EXCEPT !.isRendering = TRUE,
                              !.renderError = 0,
                              !.renderedImageUrl = 0,
                              !.activeTab = "render",
                              !.originalImageUrl = i,
                              !.renderCalls[i] = "pending"]

\* the rest of handleRender once generateRender has settled with result
handleRenderThen(s, i, result) ==
  [s EXCEPT !.renderedImageUrl = IF result.status = "success" THEN i ELSE @,
            !.renderError = IF result.status = "success" THEN @ ELSE i,
            !.isRendering = FALSE,
            !.renderCalls[i] = "done"]

\* fetch(dataUrl) or blob() rejects before generateRender is called
handleRenderCatch(s, i) ==
  [s EXCEPT !.renderError = i, !.isRendering = FALSE, !.renderCalls[i] = "done"]

RenderClick ==
  \E hasKey \in BOOLEAN :
    /\ isOpen
    /\ \E i \in 1..MaxRenders : renderCalls[i] = "none"
    /\ Step(handleRender(Cur, hasKey))

RenderSettles ==
  \E i \in 1..MaxRenders, reply \in RenderReplies :
    renderCalls[i] = "pending" /\ Step(handleRenderThen(Cur, i, generateRender(reply)))

RenderThrows ==
  \E i \in 1..MaxRenders :
    renderCalls[i] = "pending" /\ Step(handleRenderCatch(Cur, i))

\* ------------------------------------------------------------ specifications
Init ==
  /\ isOpen = FALSE
  /\ isLoading = FALSE
  /\ geometryData = NoGeometry
  /\ layerVisibility = DefaultLayerVisibility
  /\ timeOfDay = DefaultTimeOfDay
  /\ isSunStudyEnabled = FALSE
  /\ showDefaultShadows = TRUE
  /\ showSolarPath = FALSE
  /\ climateData = [gen |-> 0]
  /\ isClimateEnabled = FALSE
  /\ sceneGeneration = 0
  /\ showMapUnderlay = FALSE
  /\ sceneRef = [set |-> FALSE, live |-> FALSE, wind |-> 0, solar |-> 0, map |-> 0]
  /\ meshGroupRef = [set |-> FALSE, empty |-> TRUE]
  /\ layerGroupsRef = [set |-> FALSE, visible |-> [l \in Layers |-> TRUE],
                       children |-> [t \in {} |-> TRUE]]
  /\ sunLightRef = [set |-> FALSE, castShadow |-> TRUE]
  /\ windHelperRef = "null"
  /\ solarHelperRef = "null"
  /\ mapGroupRef = "null"
  /\ climateFetch = [g \in 1..MaxLoads |-> "none"]
  /\ undisposed = [background |-> 0, labels |-> 0, wind |-> 0, solar |-> 0, map |-> 0]
  /\ loads = 0
  /\ containerSize = InitialContainer
  /\ rendererRef = [set |-> FALSE, size |-> <<0, 0>>]
  /\ cameraRef = [set |-> FALSE, aspect |-> <<0, 0>>]
  /\ helperVisible = [solar |-> TRUE, wind |-> TRUE]
  /\ animateLoops = 0
  /\ activeTab = "3d"
  /\ isRendering = FALSE
  /\ renderError = 0
  /\ renderedImageUrl = 0
  /\ originalImageUrl = 0
  /\ renderCalls = [i \in 1..MaxRenders |-> "none"]
  /\ errorMessage = FALSE
  /\ ingest = [instances |-> [c \in {"tree_trunk", "tree_foliage", "shrubbery",
                                      "utilityPole", "bench", "default"} |-> <<>>],
               last |-> [instanceType |-> Absent, type |-> Absent, scale |-> <<>>,
                         x |-> <<>>, y |-> <<>>, z |-> <<>>],
               count |-> 0,
               meshes |-> {}, pc |-> "nodes",
               objects |-> <<>>, lastMesh |-> [type |-> "none", vertices |-> <<>>],
               meshCount |-> 0, totalMeshes |-> 0, totalVertices |-> 0]
  /\ tiles = [range |-> [minTx |-> 0, maxTx |-> 0, minTy |-> 0, maxTy |-> 0],
              warned |-> FALSE, loadedCount |-> 0, added |-> FALSE]
  /\ solarArc = [day |-> [peak |-> 0, noon |-> 0, slope |-> 0],
                 sampled |-> <<>>, pathPoints |-> <<>>, line |-> FALSE, drawn |-> FALSE]
  /\ retry = [pc |-> "idle", retries |-> 0, delay2 |-> 0, attempts |-> 0,
              waits |-> <<>>, failures |-> <<>>, result |-> 0,
              thrown |-> [name |-> "none", stateCached |-> FALSE]]
  /\ app = [apiKey |-> TRUE, selectedPolygon |-> "null", areaKm2 |-> 0,
            settings |-> [topographyModel |-> FALSE, geometry |-> "all"],
            showPreview |-> FALSE, isLoadingPreview |-> FALSE,
            previewData |-> [set |-> FALSE, for |-> "null", known |-> FALSE,
                             with |-> [topographyModel |-> FALSE, geometry |-> "all"]],
            lastPreviewedPolygon |-> "null", errorMessage |-> FALSE,
            status |-> "IDLE", progress |-> 0, trace |-> <<>>,
            downloadHandle |-> FALSE,
            cache |-> [set |-> FALSE, for |-> "null", known |-> FALSE,
                       with |-> [topographyModel |-> FALSE, geometry |-> "all"]],
            fetches |-> [i \in 1..MaxPreviews |->
                           [pc |-> "none", polygon |-> "null", handle |-> FALSE,
                            settings |-> [topographyModel |-> FALSE, geometry |-> "all"]]],
            downloads |-> [i \in 1..MaxDownloads |-> "none"]]

Lifecycle(shapes) ==
  \/ RequestPreview
  \/ ReopenPreview
  \/ GeometryArrives(shapes)
  \/ PreviewFails
  \/ LoadFile(shapes)
  \/ ClosePreview

\* the preview with every environmental control and both climate outcomes
Next ==
  \/ Lifecycle(EnvShapes)
  \/ ClimateArrives
  \/ ClimateFails
  \/ SetTimeOfDay
  \/ ToggleSolarPath
  \/ ToggleDefaultShadows
  \/ ToggleMapUnderlay
  \/ ToggleSunStudy
  \/ ToggleClimate

Spec == Init /\ [][Next]_vars

\* the environmental controls alone: no climate sample arrives
SpecToggles ==
  Init /\ [][\/ Lifecycle(EnvShapes)
             \/ SetTimeOfDay
             \/ ToggleSolarPath
             \/ ToggleDefaultShadows
             \/ ToggleMapUnderlay
             \/ ToggleSunStudy
             \/ ToggleClimate]_vars

\* the overlays that add helper groups to the scene
SpecOverlays ==
  Init /\ [][\/ Lifecycle(EnvShapes)
             \/ ClimateArrives
             \/ SetTimeOfDay
             \/ ToggleSolarPath
             \/ ToggleMapUnderlay
             \/ ToggleSunStudy
             \/ ToggleClimate]_vars

\* the preview with its layer panel
SpecLayers ==
  Init /\ [][\/ Lifecycle(LayerShapes)
             \/ ToggleLayer
             \/ ToggleSubLayer]_vars

\* the preview with its render button, the overlays a capture hides, and the
\* window
SpecRender ==
  Init /\ [][\/ LoadFile({[origin |-> TRUE, empty |-> FALSE, surf |-> {}]})
             \/ ClosePreview
             \/ ClimateArrives
             \/ ToggleSolarPath
             \/ ToggleClimate
             \/ WindowResize
             \/ RenderClick
             \/ RenderSettles
             \/ RenderThrows]_vars

\* ------------------------------------------------------------------ claims

\* C1 (as claimed): a climate result populates climateData only if no newer
\* payload than the one it was fetched for is loaded when it arrives; the
\* result of generation N is discarded once generation N+1 is active.
StaleClimateDiscarded ==
  [][climateData' # climateData => ~(geometryData.id > climateData'.gen)]_vars

\* C2 (as claimed): while the loaded payload's own climate fetch has resolved
\* to null, no wind helper is in the scene.
NoWindAfterFailedFetch ==
  (geometryData.id # 0 /\ climateFetch[geometryData.id] = "null")
    => sceneRef.wind = 0

\* C3 (as claimed): after a new payload is loaded every field of the
\* environmental state is at its default.
ReloadResetsAll ==
  [][(geometryData' # geometryData /\ geometryData'.id # 0)
       => /\ timeOfDay' = DefaultTimeOfDay
          /\ ~isSunStudyEnabled' /\ ~showSolarPath' /\ ~isClimateEnabled'
          /\ ~showMapUnderlay' /\ showDefaultShadows']_vars

\* C3 (amended): after a new payload is loaded the sun-study, solar-path and
\* wind-field toggles are off; time-of-day, map-underlay and default-shadows
\* keep the values they had before the load.
ReloadResetsAnalysis ==
  [][(geometryData' # geometryData /\ geometryData'.id # 0)
       => /\ ~isSunStudyEnabled' /\ ~showSolarPath' /\ ~isClimateEnabled'
          /\ timeOfDay' = timeOfDay
          /\ showMapUnderlay' = showMapUnderlay
          /\ showDefaultShadows' = showDefaultShadows]_vars

\* C3 witness: no scene was ever built, so the preview has been closed since
\* the payload arrived and the controls were moved before it arrived: the
\* load left time-of-day, map-underlay and default-shadows off their defaults.
ReloadKeptControls ==
  /\ geometryData.id # 0 /\ sceneGeneration = 0
  /\ timeOfDay # DefaultTimeOfDay /\ showMapUnderlay /\ ~showDefaultShadows
  /\ ~isSunStudyEnabled /\ ~showSolarPath /\ ~isClimateEnabled

\* C4: the scene on display holds at most one wind, one solar-path and one
\* map-tile helper group, and none for an overlay whose toggle is off.
HelperGroupsSingle ==
  /\ sceneRef.wind <= 1 /\ sceneRef.solar <= 1 /\ sceneRef.map <= 1
  /\ sceneRef.live =>
       /\ ~isClimateEnabled => sceneRef.wind = 0
       /\ ~showSolarPath => sceneRef.solar = 0
       /\ ~showMapUnderlay => sceneRef.map = 0

\* C4 witness: all three helpers are in a rebuilt scene after the slider moved.
AllHelpersInScene ==
  /\ sceneRef.live /\ sceneGeneration >= 2 /\ timeOfDay # DefaultTimeOfDay
  /\ sceneRef.wind = 1 /\ sceneRef.solar = 1 /\ sceneRef.map = 1

\* C5 (as claimed): what the overlays created and did not dispose never
\* exceeds what one recompute of each overlay creates: one background
\* texture, one compass of label textures, one helper group per overlay.
OverlayResourcesBounded ==
  /\ undisposed.background <= 1
  /\ undisposed.labels * LabelsPerCompass <= LabelsPerCompass
  /\ undisposed.wind <= 1 /\ undisposed.solar <= 1 /\ undisposed.map <= 1

\* C6 (as claimed): a scene built from a payload with no mesh holds no
\* helper group, whichever overlay is enabled.
EmptyBoundsNoNodes ==
  (sceneRef.live /\ meshGroupRef.set /\ meshGroupRef.empty)
    => (sceneRef.wind = 0 /\ sceneRef.solar = 0 /\ sceneRef.map = 0)

\* what three.js draws: a primitive whose own flag and whose group's flag are set
LayerShown(groups, l) == groups.visible[l]
ChildShown(groups, t) == groups.visible["surface"] /\ groups.children[t]
Setting(l) == IF l = "surface" THEN layerVisibility.surface["_group"] ELSE layerVisibility[l]

\* C7: the flag of every layer group equals the layer's setting, and no
\* primitive of a layer that is switched off is drawn.
LayerFlagsMatchSetting ==
  layerGroupsRef.set =>
    /\ \A l \in Layers : layerGroupsRef.visible[l] = Setting(l)
    /\ \A t \in DOMAIN layerGroupsRef.children :
         ~Setting("surface") => ~ChildShown(layerGroupsRef, t)

\* C7 witness: layers are off in the scene built for the second payload.
HiddenLayersAfterReload ==
  /\ sceneRef.live /\ geometryData.id = 2
  /\ DOMAIN layerGroupsRef.children = SurfTypes
  /\ ~layerVisibility.buildings /\ ~layerVisibility.surface["_group"]
  /\ ~layerGroupsRef.visible["buildings"]

\* C8: a surface child is drawn iff the surface group flag is set and the
\* flag of its subtype is set, a subtype without an entry counting as set.
SurfaceChildVisibility ==
  layerGroupsRef.set =>
    \A t \in DOMAIN layerGroupsRef.children :
      ChildShown(layerGroupsRef, t) <=>
        /\ layerVisibility.surface["_group"]
        /\ (t \in SubKeys => layerVisibility.surface[t])

\* C8 witness: with the group on and footway off, the footway child is
\* hidden and the child of the unlisted subtype is drawn.
UnlistedSubtypeShown ==
  /\ layerGroupsRef.set /\ DOMAIN layerGroupsRef.children = SurfTypes
  /\ layerVisibility.surface["_group"] /\ ~layerVisibility.surface["footway"]
  /\ ChildShown(layerGroupsRef, "plaza") /\ ~ChildShown(layerGroupsRef, "footway")

VisiblePrimitives(groups) ==
  {<<l, l>> : l \in {k \in Layers \ {"surface"} : LayerShown(groups, k)}}
    \cup {<<"surface", t>> : t \in {k \in DOMAIN groups.children : ChildShown(groups, k)}}

AfterLayerToggle(s, l) == Settle(s, ToggleLayerH(s, l))
AfterSubToggle(s, k) == Settle(s, ToggleSubLayerH(s, k))
Shown(s) == VisiblePrimitives(s.layerGroupsRef)

\* C9: from any state of the open preview, toggling a layer and toggling it
\* again shows exactly the primitives shown before; if a surface subtype is
\* toggled in between, exactly those that the subtype toggle alone shows.
ToggleRoundTrip ==
  (isOpen /\ layerGroupsRef.set) =>
    \A l \in Layers :
      /\ Shown(AfterLayerToggle(AfterLayerToggle(Cur, l), l)) = Shown(Cur)
      /\ \A k \in SubKeys :
           Shown(AfterLayerToggle(AfterSubToggle(AfterLayerToggle(Cur, l), k), l))
             = Shown(AfterSubToggle(Cur, k))

\* C9 witness: a subtype is off on its own while its group and the other
\* layers went through toggles.
SubtypeOffGroupOn ==
  /\ isOpen /\ sceneRef.live /\ DOMAIN layerGroupsRef.children = SurfTypes
  /\ layerVisibility.surface["_group"] /\ ~layerVisibility.surface["footway"]
  /\ ~layerVisibility.vegetation
  /\ Shown(Cur) = {<<l, l>> : l \in Layers \ {"surface", "vegetation"}}
                  \cup {<<"surface", "plaza">>}

\* C10 (as claimed): a step that is no geometry load changes the enabled
\* flag of at most one of sun-study, solar-path and wind-field.
OverlayTogglesIndependent ==
  [][geometryData' = geometryData =>
       /\ isSunStudyEnabled' # isSunStudyEnabled
            => (showSolarPath' = showSolarPath /\ isClimateEnabled' = isClimateEnabled)
       /\ showSolarPath' # showSolarPath
            => (isSunStudyEnabled' = isSunStudyEnabled /\ isClimateEnabled' = isClimateEnabled)
       /\ isClimateEnabled' # isClimateEnabled
            => (isSunStudyEnabled' = isSunStudyEnabled /\ showSolarPath' = showSolarPath)]_vars

\* C10 (amended): toggling solar-path or wind-field changes that flag only;
\* toggling sun-study leaves solar-path alone, leaves wind-field alone when
\* it switches sun-study on, and switches wind-field off when it switches
\* sun-study off.
OverlayTogglesCoupled ==
  [][geometryData' = geometryData =>
       /\ isSunStudyEnabled' # isSunStudyEnabled
            => /\ showSolarPath' = showSolarPath
               /\ isClimateEnabled' = (IF isSunStudyEnabled THEN FALSE ELSE isClimateEnabled)
       /\ showSolarPath' # showSolarPath
            => (isSunStudyEnabled' = isSunStudyEnabled /\ isClimateEnabled' = isClimateEnabled)
       /\ (isClimateEnabled' # isClimateEnabled /\ isSunStudyEnabled' = isSunStudyEnabled)
            => showSolarPath' = showSolarPath]_vars

\* C10 witness: the three overlays were enabled one by one.
AllOverlaysEnabled ==
  isOpen /\ isSunStudyEnabled /\ showSolarPath /\ isClimateEnabled
\* C11: once a scene with its light exists, the light casts shadows when
\* sun-study is enabled, whatever the default-shadows toggle says, and
\* otherwise casts them exactly when the default-shadows toggle is on.
ShadowsForcedBySunStudy ==
  sunLightRef.set =>
    sunLightRef.castShadow = (IF isSunStudyEnabled THEN TRUE ELSE showDefaultShadows)

\* C11 witness: default-shadows was switched off, then sun-study on, and the
\* light of the scene on display casts shadows.
ShadowsOnDespiteToggle ==
  /\ sceneRef.live /\ isSunStudyEnabled /\ ~showDefaultShadows
  /\ sunLightRef.set /\ sunLightRef.castShadow
\* C12: a step of handleRender (its start, with the capture, or its end,
\* with either outcome) leaves the renderer size, the camera aspect, the
\* helpers and their visibility, the overlay toggles, the time of day and the
\* layer visibility as they were.
RenderLeavesView ==
  [][renderCalls' # renderCalls =>
       /\ rendererRef' = rendererRef /\ cameraRef' = cameraRef
       /\ helperVisible' = helperVisible
       /\ solarHelperRef' = solarHelperRef /\ windHelperRef' = windHelperRef
       /\ isSunStudyEnabled' = isSunStudyEnabled /\ showSolarPath' = showSolarPath
       /\ isClimateEnabled' = isClimateEnabled /\ showMapUnderlay' = showMapUnderlay
       /\ showDefaultShadows' = showDefaultShadows
       /\ timeOfDay' = timeOfDay /\ layerVisibility' = layerVisibility]_vars

\* C12 witness: a render has finished in a resized window with both helpers
\* in the scene; the view has the window's size and the helpers are visible.
RenderDoneHelpersShown ==
  /\ \E i \in 1..MaxRenders : renderCalls[i] = "done"
  /\ sceneRef.live /\ solarHelperRef = "here" /\ windHelperRef = "here"
  /\ containerSize # InitialContainer
  /\ rendererRef.size = containerSize /\ cameraRef.aspect = containerSize
  /\ helperVisible.solar /\ helperVisible.wind

\* C13 (as claimed): when a handleRender invocation ends, the rendering flag
\* is cleared and either the rendered image is set with no error, or the
\* error is set with no rendered image.
RenderEndsInOneOutcome ==
  [][(\E i \in 1..MaxRenders : renderCalls[i] = "pending" /\ renderCalls'[i] = "done")
       => /\ ~isRendering'
          /\ \/ renderedImageUrl' # 0 /\ renderError' = 0
             \/ renderError' # 0 /\ renderedImageUrl' = 0]_vars

\* C14 (as claimed): when the geometry fetch of handlePreview rejects, the
\* preview is closed, the preview geometry is null, no scene is on display,
\* the error message is set and the loading flag is cleared.
FailedPreviewLeavesNoGeometry ==
  [][(~errorMessage /\ errorMessage')
       => /\ ~isOpen' /\ ~isLoading' /\ errorMessage'
          /\ geometryData'.id = 0
          /\ ~sceneRef'.live]_vars

\* ------------------------------------------------------------ node classes
SpecIngest == Init /\ [][IngestNode \/ CreateInstancedMeshes]_vars

\* C15: whatever the case and the surrounding blanks of the raw type tag of
\* the node last ingested, and also when the tag is empty or absent, the
\* classifier yields one of the five classes: tree when the normal form
\* contains "tree" or is not a known non-tree type, utility pole, shrubbery
\* or bench on an exact match, default for the other known types
ClassifierTotal ==
  LET TreeWords == {w \in TagWords : \E i \in 1..Len(w) : i + 3 <= Len(w) /\ w[i] = "t"
                                         /\ w[i + 1] = "r" /\ w[i + 2] = "e" /\ w[i + 3] = "e"}
      ExpectedClass(word) ==
        IF word \in TreeWords \/ word \notin knownNonTreeTypes THEN "tree"
        ELSE IF word = W_utilitypole THEN "utilityPole"
        ELSE IF word = W_shrubbery THEN "shrubbery"
        ELSE IF word = W_bench THEN "bench"
        ELSE "default"
  IN
  ingest.count > 0 =>
    /\ classify(ingest.last) \in {"tree", "shrubbery", "utilityPole", "bench", "default"}
    /\ \A w \in TagWords, c \in Casings, l \in 0..MaxPad, r \in 0..MaxPad :
         (/\ Len(rawTypeOf(ingest.last)) = l + Len(w) + r
          /\ rawTypeOf(ingest.last) = TagText(w, c, l, r))
           => classify(ingest.last) = ExpectedClass(w)
    /\ (~Truthy(ingest.last.instanceType) /\ ~Truthy(ingest.last.type))
         => classify(ingest.last) = "tree"

PaddedCapitalBenchClassified ==
  /\ ingest.count > 0
  /\ ingest.last.type = TagText(W_bench, "capital", MaxPad, MaxPad)
  /\ ingest.last.instanceType = Absent
  /\ classify(ingest.last) = "bench"

\* C16: ingesting a node classified as a tree adds exactly two instances, a
\* trunk at the node position and a foliage instance with the same x and z
\* above it; ingesting any other node adds exactly one instance, to no tree
\* batch; and once the instanced meshes are made, the tree-trunk, tree-foliage
\* and shrubbery batches are in the vegetation layer and every other batch is
\* in the infrastructure layer
TreeTwoInstancesOthersOne ==
  [][/\ ingest'.count = ingest.count + 1 =>
          LET BatchTotal(inst) ==
                Len(inst["tree_trunk"]) + Len(inst["tree_foliage"])
                  + Len(inst["shrubbery"]) + Len(inst["utilityPole"])
                  + Len(inst["bench"]) + Len(inst["default"])
              n == ingest'.last
              before == ingest.instances
              after == ingest'.instances
              at == <<coordOf(n.x), coordOf(n.y), coordOf(n.z)>>
          IN  IF classify(n) = "tree"
              THEN /\ BatchTotal(after) = BatchTotal(before) + 2
                   /\ Len(after["tree_trunk"]) = Len(before["tree_trunk"]) + 1
                   /\ Len(after["tree_foliage"]) = Len(before["tree_foliage"]) + 1
                   /\ after["tree_trunk"][Len(after["tree_trunk"])].position = at
                   /\ after["tree_foliage"][Len(after["tree_foliage"])].position[1] = at[1]
                   /\ after["tree_foliage"][Len(after["tree_foliage"])].position[3] = at[3]
                   /\ after["tree_foliage"][Len(after["tree_foliage"])].position[2] > at[2]
              ELSE /\ BatchTotal(after) = BatchTotal(before) + 1
                   /\ after["tree_trunk"] = before["tree_trunk"]
                   /\ after["tree_foliage"] = before["tree_foliage"]
     /\ ingest'.pc = "built" =>
          /\ \A c \in DOMAIN ingest'.instances :
               ingest'.instances[c] # <<>> =>
                 \E m \in ingest'.meshes :
                   m.category = c /\ m.count = Len(ingest'.instances[c])
          /\ \A m \in ingest'.meshes :
               m.layer = (IF m.category \in {"tree_trunk", "tree_foliage", "shrubbery"}
                          THEN "vegetation" ELSE "infrastructure")]_vars

TreeBatchesInVegetation ==
  /\ ingest.pc = "built"
  /\ ingest.last.type = W_tree
  /\ Len(ingest.instances["tree_trunk"]) = 1
  /\ Len(ingest.instances["tree_foliage"]) = 1
  /\ [category |-> "tree_foliage", layer |-> "vegetation", count |-> 1] \in ingest.meshes

\* C17: the trunk and the foliage of a tree made from a scale at or below 1,
\* from scale 0 or from an absent scale have the dimensions of a tree made
\* from scale 1; above 1 the dimensions are the base dimensions times the scale
TreeScaleFloored ==
  [][(ingest'.count = ingest.count + 1 /\ classify(ingest'.last) = "tree") =>
       LET n == ingest'.last
           trunk == ingest'.instances["tree_trunk"][Len(ingest'.instances["tree_trunk"])]
           foliage == ingest'.instances["tree_foliage"][Len(ingest'.instances["tree_foliage"])]
           tenths == IF n.scale = <<>> THEN 10
                     ELSE IF n.scale[1] <= 10 THEN 10 ELSE n.scale[1]
       IN  /\ trunk.scale = <<tenths * 625, tenths * 1250, tenths * 625>>
           /\ foliage.scale = <<tenths * 1560, tenths * 1560, tenths * 1560>>]_vars

SmallTreeAtBaseSize ==
  /\ ingest.count = 1
  /\ ingest.last.type = W_tree
  /\ ingest.last.scale = <<3>>
  /\ ingest.instances["tree_trunk"][1].scale = <<6250, 12500, 6250>>
  /\ ingest.instances["tree_foliage"][1].scale = <<15600, 15600, 15600>>

\* --------------------------------------------------------------- map tiles
SpecTiles == Init /\ [][ProjectTiles]_vars

\* C18: one run of the map underlay over any tile range requests at most 300
\* tiles, and when the padded grid has more than 300 tiles it has warned and
\* has still added the tile group
TileRequestsCapped ==
  tiles.added =>
    /\ tiles.loadedCount <= 300
    /\ (tiles.range.maxTx - tiles.range.minTx + 7)
         * (tiles.range.maxTy - tiles.range.minTy + 7) > 300
         => tiles.warned /\ tiles.loadedCount = 300

LargeGridStoppedAtCap ==
  /\ tiles.added
  /\ tiles.range.maxTx - tiles.range.minTx + 1 = MaxSpan
  /\ tiles.range.maxTy - tiles.range.minTy + 1 = MaxSpan
  /\ tiles.warned
  /\ tiles.loadedCount = 300

\* -------------------------------------------------------------- solar path
SpecSolarArc == Init /\ [][DrawSolarPath]_vars

\* C19: the arc is sampled at the 65 times from 04:00 to 20:00, a quarter of
\* an hour apart, and a sample is among the points of the arc exactly when
\* its altitude is at least -0.1 rad
ArcKeepsAtOrAboveCutoff ==
  solarArc.drawn =>
    /\ Len(solarArc.sampled) = 65
    /\ \A i \in 1..65 :
         /\ solarArc.sampled[i] = [hours |-> 4 + (i - 1) \div 4,
                                   minutes |-> 15 * ((i - 1) % 4)]
         /\ (\E k \in DOMAIN solarArc.pathPoints :
               /\ solarArc.pathPoints[k].hours = solarArc.sampled[i].hours
               /\ solarArc.pathPoints[k].minutes = solarArc.sampled[i].minutes)
              <=> altitudeOf(solarArc.day, 15 + i) >= 0 - 10

\* -------------------------------------------------------------- render loop
\* C20: however often the preview is opened, closed or rebuilt, at most one
\* animation-frame loop keeps scheduling frames
AtMostOneAnimateLoop == animateLoops <= 1

\* ------------------------------------------------------------ point colors
\* C23: the instance made for a node classified as utility pole, bench or
\* shrubbery has the color of its category in COLORS.infrastructure, whatever
\* the case and the blanks of its tag
CategoryColorFromTable ==
  (ingest.count > 0 /\ classify(ingest.last) \in {"utilityPole", "bench", "shrubbery"}) =>
    LET batch == ingest.instances[classify(ingest.last)] IN
    batch[Len(batch)].color =
      (IF classify(ingest.last) = "utilityPole" THEN "#696969"
       ELSE IF classify(ingest.last) = "bench" THEN "#A0522D"
       ELSE "#8FBC8F")

\* ---------------------------------------------------- overlays after a build
\* C27: in the scene on display, every overlay whose toggle is on and whose
\* inputs are there has its helper group in that scene, also after a reopen
\* and after a new payload
HelpersFollowScene ==
  sceneRef.live =>
    /\ (isClimateEnabled /\ climateData.gen # 0)
         => sceneRef.wind = 1 /\ windHelperRef = "here"
    /\ (showSolarPath /\ geometryData.id # 0 /\ geometryData.origin)
         => sceneRef.solar = 1 /\ solarHelperRef = "here"
    /\ (showMapUnderlay /\ geometryData.id # 0 /\ geometryData.origin
          /\ ~meshGroupRef.empty)
         => sceneRef.map = 1 /\ mapGroupRef = "here"

MapFollowsReopenedScene ==
  /\ sceneRef.live /\ sceneGeneration >= 2 /\ loads = 1
  /\ showMapUnderlay /\ sceneRef.map = 1 /\ mapGroupRef = "here"
  /\ isClimateEnabled /\ sceneRef.wind = 1

\* ------------------------------------------------------- rendering flag
\* C29: isRendering is true exactly while some handleRender invocation has
\* started and has not finished
RenderingFlagMatchesCalls ==
  isRendering <=> \E i \in 1..MaxRenders : renderCalls[i] = "pending"

\* ------------------------------------------------------------- empty meshes
SpecMeshes == Init /\ [][IngestMesh]_vars

\* C22: a mesh whose vertex list is absent or empty adds no object and
\* nothing to the mesh and vertex totals, and the meshes after it are
\* ingested as usual: a mesh with vertices adds one object and its share to
\* the totals
EmptyMeshSkipped ==
  [][ingest'.meshCount = ingest.meshCount + 1 =>
       IF ingest'.lastMesh.vertices = <<"undefined">> \/ ingest'.lastMesh.vertices = <<>>
       THEN /\ ingest'.objects = ingest.objects
            /\ ingest'.totalMeshes = ingest.totalMeshes
            /\ ingest'.totalVertices = ingest.totalVertices
       ELSE /\ Len(ingest'.objects) = Len(ingest.objects) + 1
            /\ ingest'.totalMeshes = ingest.totalMeshes + 1
            /\ ingest'.totalVertices
                 = ingest.totalVertices + Len(ingest'.lastMesh.vertices) \div 3]_vars

MeshAfterEmptyMeshIngested ==
  /\ ingest.meshCount = 2
  /\ ingest.lastMesh.vertices # <<"undefined">> /\ ingest.lastMesh.vertices # <<>>
  /\ Len(ingest.objects) = 1
  /\ ingest.totalMeshes = 1 /\ ingest.totalVertices = 3

\* --------------------------------------------------------- retry with backoff
SpecRetry == Init /\ [][SaveFile \/ OperationSettles \/ RetryTimer]_vars

\* C24: retryOperation makes at most 4 attempts, with waits of 500, 750 and
\* 1125 ms between them; it returns the result of the first attempt that
\* succeeds and attempts no more; when all attempts fail it throws
\* HANDLE_INVALIDATED if the last failure is an InvalidStateError or mentions
\* 'state cached', and the last failure otherwise
RetryBounded ==
  /\ retry.attempts <= 4
  /\ Len(retry.waits) <= 3
  /\ retry.waits = SubSeq(<<500, 750, 1125>>, 1, Len(retry.waits))
  /\ retry.pc = "waiting" => Len(retry.waits) = retry.attempts - 1
  /\ retry.pc = "returned" =>
       /\ retry.result = retry.attempts
       /\ Len(retry.failures) = retry.attempts - 1
       /\ Len(retry.waits) = retry.attempts - 1
  /\ retry.pc = "thrown" =>
       /\ retry.attempts = 4 /\ Len(retry.failures) = 4
       /\ retry.waits = <<500, 750, 1125>>
       /\ retry.thrown =
            IF retry.failures[4].name = "InvalidStateError" \/ retry.failures[4].stateCached
            THEN [name |-> "HANDLE_INVALIDATED", stateCached |-> FALSE]
            ELSE retry.failures[4]

HandleInvalidatedAfterFourAttempts ==
  /\ retry.pc = "thrown" /\ retry.attempts = 4
  /\ retry.failures[1].name = "NotAllowedError" /\ ~retry.failures[1].stateCached
  /\ retry.failures[4].name = "NotAllowedError" /\ retry.failures[4].stateCached
  /\ retry.thrown.name = "HANDLE_INVALIDATED"

\* ------------------------------------------------------ selection and requests
\* the selection, the API key, a loaded file, and every button that sends a
\* request; the downloads stay in flight
SpecSelect ==
  Init /\ [][\/ PolygonChange
             \/ ClearSelection
             \/ SetApiKey
             \/ processLoadedFile
             \/ PreviewClick
             \/ PreviewFetchSettles
             \/ ClosePreviewModal
             \/ DownloadClick
             \/ handleDownloadFromPreview]_vars

\* C21: a step that sends a request, the geometry fetch of a preview or the
\* request of a download, starts from a selection with a polygon that is
\* not empty, an area above 0 and of at most 5 km2, and an API key
RequestOnlyWithValidSelection ==
  [][((\E i \in 1..MaxPreviews :
         app.fetches[i].pc = "none" /\ app'.fetches[i].pc = "pending")
      \/ (\E i \in 1..MaxDownloads :
            app.downloads[i] = "none" /\ app'.downloads[i] = "requesting")) =>
       /\ app.selectedPolygon \notin {"null", "empty"}
       /\ app.areaKm2 > 0 /\ app.areaKm2 <= 5
       /\ app.apiKey]_vars

\* ------------------------------------------------------------ preview reuse
\* previews with changing selection and settings and a linked folder
SpecPreview ==
  Init /\ [][\/ PolygonChange
             \/ ChangeSettings
             \/ LinkFolder
             \/ PreviewClick
             \/ PreviewFetchSettles
             \/ ClosePreviewModal]_vars

\* C25: a step that opens the preview without a geometry fetch shows
\* geometry that was fetched for the selected polygon, with the topography
\* setting and the geometry list of the current settings
ReuseOnlyWhenPolygonAndSettingsMatch ==
  [][(~app.showPreview /\ app'.showPreview /\ app'.fetches = app.fetches) =>
       /\ app'.previewData.set
       /\ app'.previewData.for = app.selectedPolygon
       /\ app'.previewData.known
       /\ app'.previewData.with = app.settings]_vars

\* C28: when the geometry fetch of a preview settles after a newer fetch was
\* issued, it leaves an open preview open, and it leaves the preview data
\* and the polygon recorded as last previewed alone if the newer geometry
\* has arrived
LatestPreviewRequestWins ==
  [][\A i \in 1..MaxPreviews, j \in 1..MaxPreviews :
       (/\ i < j /\ app.fetches[j].pc # "none"
        /\ app.fetches[i].pc = "pending" /\ app'.fetches[i].pc # "pending") =>
         /\ app.showPreview => app'.showPreview
         /\ app.fetches[j].pc = "resolved" =>
              /\ app'.previewData = app.previewData
              /\ app'.lastPreviewedPolygon = app.lastPreviewedPolygon]_vars

\* ------------------------------------------------------------ download status
SpecDownload ==
  Init /\ [][\/ PolygonChange
             \/ DownloadClick
             \/ DownloadSettles
             \/ SuccessTimer]_vars

\* C26: the status and progress pairs set since a download started are the
\* first pairs of PREPARING 5, REQUESTING 20, PROCESSING 50, DOWNLOADING 80,
\* SUCCESS 100, IDLE 0, or some of the first four followed by ERROR alone
DownloadStatusInOrder ==
  LET full == <<<<"PREPARING", 5>>, <<"REQUESTING", 20>>, <<"PROCESSING", 50>>,
                <<"DOWNLOADING", 80>>, <<"SUCCESS", 100>>, <<"IDLE", 0>>>>
      n == Len(app.trace)
  IN  \/ n <= 6 /\ app.trace = SubSeq(full, 1, n)
      \/ /\ n >= 2 /\ n <= 5
         /\ SubSeq(app.trace, 1, n - 1) = SubSeq(full, 1, n - 1)
         /\ app.trace[n] = <<"ERROR", full[n - 1][2]>>

\* C30: while a download awaits its request or its saving, the status is not
\* IDLE and the progress is not 0
NeverIdleWhileDownloadInFlight ==
  (\E i \in 1..MaxDownloads : app.downloads[i] \in {"requesting", "saving"}) =>
    app.status # "IDLE" /\ app.progress # 0

====
